---- MODULE Spec2Model ----
(***************************************************************************)
(* python_environment_check.py as a state machine.                         *)
(*                                                                         *)
(* A run prints the interpreter line at module level, then main() calls    *)
(* get_requirements_dict() (one step per manifest line) and                *)
(* check_packages(reqs), which calls get_packages(reqs.keys()) (one step   *)
(* per candidate module) and then checks one package per step.             *)
(*                                                                         *)
(* Text is modelled as sequences of tokens: a manifest line is a sequence  *)
(* whose elements are a name, a written specifier, a marker, white space,  *)
(* the comment character or other text.  The packaging library (versions,  *)
(* specifiers, requirements, markers) and the import system are the        *)
(* environment; they are modelled by what they return on the tokens used.  *)
(***************************************************************************)
EXTENDS Naturals, Sequences, FiniteSets, TLC

VARIABLES
    pc,                 \* position of the run
    env,                \* the platform and the interpreter version of the run
    out,                \* standard output: the sequence of printed lines
    exc,                \* the exception that left main, or None
    exit_status,        \* process exit status, or None while running
    REQUIREMENTS_FILE,  \* get_requirements_dict: the path that is opened
    raw,                \* get_requirements_dict: the line as read from the file
    line,               \* get_requirements_dict: the line after split and strip
    nread,              \* get_requirements_dict: number of lines read so far
    hist,               \* history: the stripped lines read so far
    reqs,               \* the requirements mapping: [keys: insertion order, val: key -> specifier string]
    pkgs,               \* get_packages: the names passed in
    pi,                 \* get_packages: index of the package being resolved
    ci,                 \* get_packages: index of the candidate to load next
    tried,              \* history of get_packages: the loads made and what each gave
    result,             \* get_packages: name -> version, in insertion order
    installed,          \* check_packages: the mapping get_packages returned
    notLoaded,          \* history: the packages all of whose loads failed with ImportError
    ck,                 \* check_packages: index of the next package to check
    spec_set            \* check_packages: the specifier set of the last package checked

vars == <<pc, env, out, exc, exit_status, REQUIREMENTS_FILE, raw, line, nread,
          hist, reqs, pkgs, pi, ci, tried, result, installed, notLoaded, ck, spec_set>>

None == "None"

(***************************************************************************)
(* Bounds of the model.                                                    *)
(***************************************************************************)
MaxLines == 2

(***************************************************************************)
(* Ordered mappings (Python dict): keys in insertion order, values by key. *)
(***************************************************************************)
EmptyDict == [keys |-> <<>>, val |-> <<>>]

Range(s) == {s[i] : i \in 1..Len(s)}

DictHas(d, k) == k \in Range(d.keys)

\* d[k] = v: a new key goes to the end, an existing key keeps its place.
DictSet(d, k, v) ==
    IF DictHas(d, k)
    THEN [keys |-> d.keys, val |-> [d.val EXCEPT ![k] = v]]
    ELSE [keys |-> Append(d.keys, k), val |-> (k :> v) @@ d.val]

DictGet(d, k, default) == IF DictHas(d, k) THEN d.val[k] ELSE default

(***************************************************************************)
(* str.lower and str.replace("-", "_") on the names used.                  *)
(***************************************************************************)
NameToks == {"Foo-Bar", "tensorflow-cpu"}

Lower(s) == IF s = "Foo-Bar" THEN "foo-bar" ELSE s

ReplaceHyphens(s) ==
    CASE s = "foo-bar" -> "foo_bar"
      [] s = "Foo-Bar" -> "Foo_Bar"
      [] s = "tensorflow-cpu" -> "tensorflow_cpu"
      [] OTHER -> s

(***************************************************************************)
(* packaging.version: a version is its release tuple and whether it has a  *)
(* pre-release segment; str() gives the normalised text.                   *)
(***************************************************************************)
InvalidVersion == [valid |-> FALSE]

Version(rel, pre, text) == [valid |-> TRUE, release |-> rel, is_prerelease |-> pre, text |-> text]

\* packaging.version.parse: "v2.0" normalises to 2.0; text that is no version raises.
version_parse(s) ==
    CASE s = "0"       -> Version(<<0>>, FALSE, "0")
      [] s = "0.0"     -> Version(<<0, 0>>, FALSE, "0.0")
      [] s = "1.0"     -> Version(<<1, 0>>, FALSE, "1.0")
      [] s = "2.0"     -> Version(<<2, 0>>, FALSE, "2.0")
      [] s = "v2.0"    -> Version(<<2, 0>>, FALSE, "2.0")
      [] s = "2.0.0a1" -> Version(<<2, 0, 0>>, TRUE, "2.0.0a1")
      [] s = "3.0"     -> Version(<<3, 0>>, FALSE, "3.0")
      [] s = "3.8.10"  -> Version(<<3, 8, 10>>, FALSE, "3.8.10")
      [] s = "3.9"     -> Version(<<3, 9>>, FALSE, "3.9")
      [] s = "3.12.1"  -> Version(<<3, 12, 1>>, FALSE, "3.12.1")
      [] OTHER         -> InvalidVersion

Seg(rel, i) == IF i <= Len(rel) THEN rel[i] ELSE 0

Longer(a, b) == IF Len(a) >= Len(b) THEN Len(a) ELSE Len(b)

\* Release tuples compare segment by segment, the shorter padded with zeros.
RECURSIVE ReleaseCmp(_, _, _)
ReleaseCmp(a, b, i) ==
    IF i > Longer(a, b) THEN "eq"
    ELSE IF Seg(a, i) < Seg(b, i) THEN "lt"
    ELSE IF Seg(a, i) > Seg(b, i) THEN "gt"
    ELSE ReleaseCmp(a, b, i + 1)

\* Version.__lt__: by release, a pre-release sorting before its final release.
VersionLt(a, b) ==
    LET c == ReleaseCmp(a.release, b.release, 1)
    IN  \/ c = "lt"
        \/ c = "eq" /\ a.is_prerelease /\ ~b.is_prerelease

VersionGe(a, b) == ~VersionLt(a, b)

(***************************************************************************)
(* packaging.specifiers: a specifier set is a set of clauses and the       *)
(* prereleases override ("None" unless assigned, then "True").             *)
(***************************************************************************)
Clause(c) ==
    CASE c = ">=0"   -> [op |-> ">=", version |-> "0"]
      [] c = ">=1.0" -> [op |-> ">=", version |-> "1.0"]
      [] c = ">=2.0" -> [op |-> ">=", version |-> "2.0"]
      [] c = "<3.0"  -> [op |-> "<", version |-> "3.0"]

\* The clauses of a comma separated specifier string.
SplitClauses(s) ==
    CASE s = ""            -> {}
      [] s = ">=0"         -> {">=0"}
      [] s = ">=2.0"       -> {">=2.0"}
      [] s = "<3.0"        -> {"<3.0"}
      [] s = ">=1.0,<3.0"  -> {">=1.0", "<3.0"}
      [] s = "<3.0,>=1.0"  -> {">=1.0", "<3.0"}

SpecifierSet(s) == [specs |-> SplitClauses(s), prereleases |-> None]

\* Position of a clause's text in the order sorted() gives ('<' sorts before '>').
ClauseRank(c) ==
    CASE c = "<3.0"  -> 1
      [] c = ">=0"   -> 2
      [] c = ">=1.0" -> 3
      [] c = ">=2.0" -> 4

RECURSIVE JoinSorted(_)
JoinSorted(cs) ==
    IF cs = {} THEN ""
    ELSE LET c == CHOOSE x \in cs : \A y \in cs : ClauseRank(x) <= ClauseRank(y)
             rest == cs \ {c}
         IN  IF rest = {} THEN c ELSE c \o "," \o JoinSorted(rest)

\* str(SpecifierSet): the clauses sorted and joined with commas.
SpecifierSetStr(ss) == JoinSorted(ss.specs)

\* Specifier.prereleases: a clause admits pre-releases when its own version is one.
ClausePrereleases(c) == version_parse(Clause(c).version).is_prerelease

\* SpecifierSet.prereleases: the override when assigned, else what the clauses say.
SpecifierSetPrereleases(ss) ==
    IF ss.prereleases = "True" THEN TRUE
    ELSE IF ss.specs = {} THEN FALSE
    ELSE \E c \in ss.specs : ClausePrereleases(c)

\* The operator of one clause applied to a version.
ClauseCompare(c, v) ==
    LET cl == Clause(c)
        sv == version_parse(cl.version)
    IN  CASE cl.op = ">=" -> VersionGe(v, sv)
          [] cl.op = "<"  -> /\ VersionLt(v, sv)
                             /\ ~(/\ ~sv.is_prerelease
                                  /\ v.is_prerelease
                                  /\ ReleaseCmp(v.release, sv.release, 1) = "eq")

\* Specifier.contains(item, prereleases)
SpecifierContains(c, v, prereleases) ==
    IF v.is_prerelease /\ ~prereleases THEN FALSE ELSE ClauseCompare(c, v)

\* item in spec_set: SpecifierSet.contains(item) with no prereleases argument.
SpecifierSetContains(ss, v) ==
    LET prereleases == SpecifierSetPrereleases(ss)
    IN  IF ~prereleases /\ v.is_prerelease THEN FALSE
        ELSE \A c \in ss.specs : SpecifierContains(c, v, prereleases)

(***************************************************************************)
(* packaging.requirements and packaging.markers on token sequences.        *)
(***************************************************************************)
SpecToks == {">=2.0", ">=1.0,<3.0"}

MarkerToks == {";sys_platform=='win32'"}

IsSpace(t) == t \in {" ", "\n"}

\* Requirement(line): name, then an optional specifier, then an optional marker,
\* white space allowed between them; anything else raises.
Requirement(l) ==
    LET t == SelectSeq(l, LAMBDA x : ~IsSpace(x))
        n == Len(t)
    IN  IF n >= 1 /\ n <= 3 /\ t[1] \in NameToks
           /\ \/ n = 1
              \/ n = 2 /\ t[2] \in SpecToks \cup MarkerToks
              \/ n = 3 /\ t[2] \in SpecToks /\ t[3] \in MarkerToks
        THEN [ok |-> TRUE,
              name |-> t[1],
              specifier |-> IF n >= 2 /\ t[2] \in SpecToks
                            THEN SpecifierSet(t[2]) ELSE SpecifierSet(""),
              marker |-> IF t[n] \in MarkerToks THEN t[n] ELSE None]
        ELSE [ok |-> FALSE, name |-> None, specifier |-> SpecifierSet(""), marker |-> None]

\* Marker.evaluate() in the running environment.
MarkerEvaluate(m, platform) ==
    CASE m = ";sys_platform=='win32'" -> platform = "win32"

(***************************************************************************)
(* Printed lines.  about: what the line reports; tag: its [OK]/[FAIL]      *)
(* prefix or None; the other fields are the values formatted into it.      *)
(***************************************************************************)
Msg(about, tag, pkg, ver, spec, marker, text) ==
    [about |-> about, tag |-> tag, pkg |-> pkg, ver |-> ver, spec |-> spec,
     marker |-> marker, text |-> text]

\* The environments a run is placed in.
Environments ==
    {[sys_platform |-> "linux", python_version |-> "3.12.1"],
     [sys_platform |-> "win32", python_version |-> "3.8.10"]}

\* Lines 14-17: the interpreter check against 3.9, by version ordering.
InterpreterLine(v) ==
    IF VersionLt(version_parse(v), version_parse("3.9"))
    THEN Msg("python", "[FAIL]", None, v, None, None, <<>>)
    ELSE Msg("python", "[OK]", None, v, None, None, <<>>)

(***************************************************************************)
(* get_requirements_dict                                                   *)
(***************************************************************************)
\* A split at the last '#' instead of the first (rsplit).
SplitHashAtLast(l) ==
    LET at == {i \in 1..Len(l) : l[i] = "#"}
    IN  IF at = {} THEN l
        ELSE SubSeq(l, 1, (CHOOSE i \in at : \A j \in at : j <= i) - 1)

\* line.split("#", 1)[0]: the part before the first '#', all of it if there is none.
RECURSIVE SplitHash(_)
SplitHash(l) ==
    IF l = <<>> \/ Head(l) = "#" THEN <<>> ELSE <<Head(l)>> \o SplitHash(Tail(l))

RECURSIVE LStrip(_)
LStrip(l) == IF l # <<>> /\ IsSpace(Head(l)) THEN LStrip(Tail(l)) ELSE l

RECURSIVE RStrip(_)
RStrip(l) ==
    IF l # <<>> /\ IsSpace(l[Len(l)]) THEN RStrip(SubSeq(l, 1, Len(l) - 1)) ELSE l

\* str.strip()
Strip(l) == RStrip(LStrip(l))

\* Line 86.
CleanLine(r) == Strip(SplitHash(r))

\* Line 108: the stored specifier string.
StoredSpec(req) ==
    IF req.specifier.specs # {} THEN SpecifierSetStr(req.specifier) ELSE ">=0"

\* Line 104: whether the entry is skipped by its marker.
MarkerDrops(req, platform) ==
    req.marker # None /\ ~MarkerEvaluate(req.marker, platform)

\* The entry stored under the name as written.
StoreRequirementAsWritten(rq, req) == DictSet(rq, req.name, StoredSpec(req))

\* Line 110.
StoreRequirement(rq, req) == DictSet(rq, Lower(req.name), StoredSpec(req))

\* Lines 86-110: the loop body on one line read from the file, from the
\* mapping rq and the output o.
ProcessLine(r, rq, o, platform) ==
    LET l == CleanLine(r)
        req == Requirement(l)
    IN  IF l = <<>> THEN [line |-> l, reqs |-> rq, out |-> o]
        ELSE IF ~req.ok
        THEN [line |-> l, reqs |-> rq,
              out |-> Append(o, Msg("skip", None, None, None, None, None, l))]
        ELSE LET o2 == Append(o, Msg("add req", None, req.name, None,
                                     SpecifierSetStr(req.specifier), req.marker, l))
             IN  IF MarkerDrops(req, platform)
                 THEN [line |-> l, reqs |-> rq, out |-> o2]
                 ELSE [line |-> l, reqs |-> StoreRequirement(rq, req), out |-> o2]

\* The manifest lines the model reads: a blank line, a malformed line, and
\* requirements with and without a specifier and a marker.
Bodies ==
    {<<>>,
     <<"Foo-Bar", "==">>,
     <<"Foo-Bar">>,
     <<"Foo-Bar", ">=1.0,<3.0">>,
     <<"Foo-Bar", ">=2.0", ";sys_platform=='win32'">>,
     <<"tensorflow-cpu", ">=2.0">>,
     <<"tensorflow-cpu", ";sys_platform=='win32'">>}

Comments == {<<>>, <<"#", ">=2.0">>, <<" ", "#", "#", "==">>}

Pads == {<<>>, <<" ">>}

RawLines ==
    {pre \o b \o c \o <<"\n">> : pre \in Pads, b \in Bodies, c \in Comments}

(***************************************************************************)
(* get_packages                                                            *)
(***************************************************************************)
\* The override list in the other order.
ModuleNamesSwapped(p) ==
    IF Lower(p) = "tensorflow-cpu" THEN <<"tensorflow_cpu", "tensorflow">> ELSE <<p>>

\* Lines 24-26, 31.
ModuleNames(p) ==
    IF Lower(p) = "tensorflow-cpu" THEN <<"tensorflow", "tensorflow_cpu">> ELSE <<p>>

\* What the module's __version__ or the distribution metadata can hold.
VersionStrs == {"v2.0", "2.0.0a1", "N/A", "unknown"}

MetaVersionStrs == {"2.0.0a1"}

\* What import_module and the lookups give for one module: the load succeeds,
\* fails with ImportError or fails with another exception; a loaded module has
\* a __version__ or not, and its metadata lookup gives a version or raises
\* PackageNotFoundError (None).
Outcomes ==
    {[load |-> "ImportError", attr |-> None, meta |-> None],
     [load |-> "OtherError", attr |-> None, meta |-> None]}
    \cup {[load |-> "ok", attr |-> a, meta |-> None] : a \in VersionStrs}
    \cup {[load |-> "ok", attr |-> None, meta |-> m] : m \in MetaVersionStrs \cup {None}}

\* Lines 36-41 (and 50-55): __version__ if present, else the metadata lookup.
VersionOf(o) == IF o.attr # None THEN o.attr ELSE o.meta

Load(m, gave) == [module |-> m, gave |-> gave]

\* No retry with the alternative name.
NeverRetriesAlt(module_name, o) == FALSE

\* Whether the except branch retries with the alternative name (lines 46-47).
RetriesAlt(module_name, o) ==
    o.load = "ImportError" /\ ReplaceHyphens(module_name) # module_name

\* Lines 34-60: one pass of the candidate loop, o1 the outcome for module_name
\* and o2 the outcome for the alternative name if it is tried.  version_found
\* is None whenever a pass begins (a pass that finds a version breaks), so a
\* pass that assigns nothing leaves it None.
TryModule(module_name, o1, o2) ==
    LET alt_module == ReplaceHyphens(module_name)
    IN  CASE o1.load = "ok" ->
               [raised |-> FALSE, version_found |-> VersionOf(o1),
                loads |-> <<Load(module_name, VersionOf(o1))>>]
          [] o1.load = "OtherError" ->
               [raised |-> TRUE, version_found |-> None,
                loads |-> <<Load(module_name, "OtherError")>>]
          [] o1.load = "ImportError" ->
               IF ~RetriesAlt(module_name, o1)
               THEN [raised |-> FALSE, version_found |-> None,
                     loads |-> <<Load(module_name, "ImportError")>>]
               ELSE CASE o2.load = "ok" ->
                           [raised |-> FALSE, version_found |-> VersionOf(o2),
                            loads |-> <<Load(module_name, "ImportError"),
                                        Load(alt_module, VersionOf(o2))>>]
                      [] o2.load = "OtherError" ->
                           [raised |-> TRUE, version_found |-> None,
                            loads |-> <<Load(module_name, "ImportError"),
                                        Load(alt_module, "OtherError")>>]
                      [] o2.load = "ImportError" ->
                           [raised |-> FALSE, version_found |-> None,
                            loads |-> <<Load(module_name, "ImportError"),
                                        Load(alt_module, "ImportError")>>]

\* A sentinel of "0" instead of "0.0".
FoundOrShortSentinel(version_found) == IF version_found = None THEN "0" ELSE version_found

\* Lines 61-62.
FoundOrSentinel(version_found) == IF version_found = None THEN "0.0" ELSE version_found

(***************************************************************************)
(* check_packages                                                          *)
(***************************************************************************)
\* The specifier set left as constructed.
NeverAllowPrereleases(ss, actual_ver_parsed) == ss

\* Lines 129-130: pre-releases are allowed when the installed version is one.
AllowPrereleases(ss, actual_ver_parsed) ==
    IF actual_ver_parsed.is_prerelease THEN [ss EXCEPT !.prereleases = "True"] ELSE ss

\* Lines 131-134.
ReportLine(pkg_name, actual_ver_parsed, ss) ==
    IF ~SpecifierSetContains(ss, actual_ver_parsed)
    THEN Msg("package", "[FAIL]", pkg_name, actual_ver_parsed.text,
             SpecifierSetStr(ss), None, <<>>)
    ELSE Msg("package", "[OK]", pkg_name, actual_ver_parsed.text, None, None, <<>>)

\* The sentinel version skipped as well.
SkipsCheckAndSentinel(actual_ver) == actual_ver \in {"N/A", "0.0"}

\* Line 125.
SkipsCheck(actual_ver) == actual_ver = "N/A"

(***************************************************************************)
(* The run.                                                                *)
(***************************************************************************)
NoSpecSet == SpecifierSet("")

Init ==
    /\ pc = "start"
    /\ env \in Environments
    /\ out = <<>>
    /\ exc = None
    /\ exit_status = None
    /\ REQUIREMENTS_FILE = None
    /\ raw = <<>>
    /\ line = <<>>
    /\ nread = 0
    /\ hist = <<>>
    /\ reqs = EmptyDict
    /\ pkgs = <<>>
    /\ pi = 1
    /\ ci = 1
    /\ tried = <<>>
    /\ result = EmptyDict
    /\ installed = EmptyDict
    /\ notLoaded = {}
    /\ ck = 1
    /\ spec_set = NoSpecSet

\* Lines 14-17, then 142-143 and 138: the interpreter line is printed and main
\* enters get_requirements_dict.
PrintInterpreter ==
    /\ pc = "start"
    /\ out' = Append(out, InterpreterLine(env.python_version))
    /\ pc' = "locate"
    /\ UNCHANGED <<env, exc, exit_status, REQUIREMENTS_FILE, raw, line, nread,
                   hist, reqs, pkgs, pi, ci, tried, result, installed, notLoaded, ck,
                   spec_set>>

\* Lines 75-82: the file two directories up if it exists, else the one beside
\* the script; open() raises when that one is missing.
OpenRequirements ==
    /\ pc = "locate"
    /\ \E up_two_exists \in BOOLEAN, beside_exists \in BOOLEAN :
          LET path == IF up_two_exists THEN "up_two/requirements.txt"
                      ELSE "requirements.txt"
              opens == up_two_exists \/ beside_exists
          IN  /\ REQUIREMENTS_FILE' = path
              /\ pc' = IF opens THEN "parse" ELSE "raised"
              /\ exc' = IF opens THEN None ELSE "FileNotFoundError"
              /\ exit_status' = IF opens THEN None ELSE "1"
    /\ UNCHANGED <<env, out, raw, line, nread, hist, reqs, pkgs, pi, ci, tried,
                   result, installed, notLoaded, ck, spec_set>>

\* Lines 83-110: one line of the file.
ReadLine ==
    /\ pc = "parse"
    /\ nread < MaxLines
    /\ \E r \in RawLines :
          LET res == ProcessLine(r, reqs, out, env.sys_platform)
          IN  /\ raw' = r
              /\ line' = res.line
              /\ hist' = Append(hist, res.line)
              /\ reqs' = res.reqs
              /\ out' = res.out
    /\ nread' = nread + 1
    /\ UNCHANGED <<pc, env, exc, exit_status, REQUIREMENTS_FILE, pkgs, pi, ci,
                   tried, result, installed, notLoaded, ck, spec_set>>

\* Lines 111, 139, 121: the file ends, the mapping is returned, check_packages
\* is entered and calls get_packages(reqs.keys()).
ReturnRequirements ==
    /\ pc = "parse"
    /\ pc' = "get_packages"
    /\ REQUIREMENTS_FILE' = None
    /\ raw' = <<>>
    /\ line' = <<>>
    /\ pkgs' = reqs.keys
    /\ pi' = 1
    /\ ci' = 1
    /\ tried' = <<>>
    /\ result' = EmptyDict
    /\ UNCHANGED <<env, out, exc, exit_status, nread, hist, reqs, installed,
                   notLoaded, ck, spec_set>>

\* Lines 29-63: one candidate of the current package is loaded; on a version,
\* or after the last candidate, the package's entry is stored.
TryCandidate ==
    /\ pc = "get_packages"
    /\ pi <= Len(pkgs)
    /\ LET p == pkgs[pi]
           module_names == ModuleNames(p)
       IN  \E o1 \in Outcomes :
           \E o2 \in IF RetriesAlt(module_names[ci], o1) THEN Outcomes ELSE {o1} :
              LET r == TryModule(module_names[ci], o1, o2)
                  ends == r.version_found # None \/ ci = Len(module_names)
              IN  /\ tried' = tried \o [i \in 1..Len(r.loads) |->
                                          [pkg |-> p, module |-> r.loads[i].module,
                                           gave |-> r.loads[i].gave]]
                  /\ IF r.raised
                     THEN /\ pc' = "raised"
                          /\ exc' = "OtherError"
                          /\ exit_status' = "1"
                          /\ UNCHANGED <<pi, ci, result>>
                     ELSE /\ UNCHANGED <<pc, exc, exit_status>>
                          /\ IF ends
                             THEN /\ result' = DictSet(result, Lower(p),
                                                       FoundOrSentinel(r.version_found))
                                  /\ pi' = pi + 1
                                  /\ ci' = 1
                             ELSE /\ ci' = ci + 1
                                  /\ UNCHANGED <<pi, result>>
    /\ UNCHANGED <<env, out, REQUIREMENTS_FILE, raw, line, nread, hist, reqs, pkgs,
                   installed, notLoaded, ck, spec_set>>

\* The packages whose loads all failed with ImportError.
NotLoaded(ps, tr) ==
    {Lower(p) : p \in {q \in Range(ps) :
                          \A i \in 1..Len(tr) : tr[i].pkg = q => tr[i].gave = "ImportError"}}

\* Lines 64, 121: get_packages returns and its result becomes installed.
ReturnPackages ==
    /\ pc = "get_packages"
    /\ pi > Len(pkgs)
    /\ pc' = "check"
    /\ installed' = result
    /\ notLoaded' = NotLoaded(pkgs, tried)
    /\ ck' = 1
    /\ pkgs' = <<>>
    /\ pi' = 1
    /\ ci' = 1
    /\ tried' = <<>>
    /\ result' = EmptyDict
    /\ UNCHANGED <<env, out, exc, exit_status, REQUIREMENTS_FILE, raw, line, nread,
                   hist, reqs, spec_set>>

\* Lines 122-134: one package of the requirements mapping is checked.
CheckPackage ==
    /\ pc = "check"
    /\ ck <= Len(reqs.keys)
    /\ LET pkg_name == reqs.keys[ck]
           ss == SpecifierSet(reqs.val[pkg_name])
           actual_ver == DictGet(installed, pkg_name, "0.0")
           actual_ver_parsed == version_parse(actual_ver)
       IN  IF SkipsCheck(actual_ver)
           THEN /\ spec_set' = ss
                /\ ck' = ck + 1
                /\ UNCHANGED <<pc, out, exc, exit_status>>
           ELSE IF ~actual_ver_parsed.valid
           THEN /\ spec_set' = ss
                /\ pc' = "raised"
                /\ exc' = "InvalidVersion"
                /\ exit_status' = "1"
                /\ UNCHANGED <<out, ck>>
           ELSE /\ spec_set' = AllowPrereleases(ss, actual_ver_parsed)
                /\ out' = Append(out, ReportLine(pkg_name, actual_ver_parsed,
                                                 AllowPrereleases(ss, actual_ver_parsed)))
                /\ ck' = ck + 1
                /\ UNCHANGED <<pc, exc, exit_status>>
    /\ UNCHANGED <<env, REQUIREMENTS_FILE, raw, line, nread, hist, reqs, pkgs, pi,
                   ci, tried, result, installed, notLoaded>>

\* Lines 134, 139, 143: check_packages and main return; the process exits 0.
Finish ==
    /\ pc = "check"
    /\ ck > Len(reqs.keys)
    /\ pc' = "done"
    /\ exit_status' = "0"
    /\ UNCHANGED <<env, out, exc, REQUIREMENTS_FILE, raw, line, nread, hist, reqs,
                   pkgs, pi, ci, tried, result, installed, notLoaded, ck, spec_set>>

Next ==
    \/ PrintInterpreter
    \/ OpenRequirements
    \/ ReadLine
    \/ ReturnRequirements
    \/ TryCandidate
    \/ ReturnPackages
    \/ CheckPackage
    \/ Finish

Spec == Init /\ [][Next]_vars

(***************************************************************************)
(* Properties.                                                             *)
(***************************************************************************)
Tagged(m) == m.tag \in {"[OK]", "[FAIL]"}

\* The packages named by the [OK]/[FAIL] lines printed after the first line, in order.
ReportedPackages ==
    LET ls == IF out = <<>> THEN <<>> ELSE SelectSeq(Tail(out), Tagged)
    IN  [i \in 1..Len(ls) |-> ls[i].pkg]

\* The packages check_packages has gone through so far, in mapping order.
Checked == SubSeq(reqs.keys, 1, ck - 1)

\* C1 as stated: at the end of check_packages the interpreter line is the
\* first line and the [OK]/[FAIL] lines after it name every package of the
\* requirements mapping exactly once, in the mapping's order, whatever
\* version the resolver returned.
C1_OneLinePerPackage ==
    pc = "done" =>
        /\ out[1].about = "python" /\ Tagged(out[1])
        /\ ReportedPackages = reqs.keys

\* C1 amended: the interpreter line is the first line printed, and the
\* [OK]/[FAIL] lines after it name, in the mapping's order and once each,
\* exactly the packages checked so far whose resolved version is not "N/A"
\* (all of them at the end of check_packages); a package resolved to "N/A"
\* gets no line.
C1_OneLinePerCheckedPackage ==
    /\ out # <<>> => out[1].about = "python" /\ Tagged(out[1])
    /\ ReportedPackages =
          SelectSeq(Checked, LAMBDA k : DictGet(installed, k, "0.0") # "N/A")
    /\ pc = "done" => Checked = reqs.keys

C1_Witness ==
    /\ pc = "done"
    /\ Len(reqs.keys) = 2
    /\ installed.val[reqs.keys[1]] = "N/A"
    /\ ReportedPackages = <<reqs.keys[2]>>

\* The requirements of the lines read so far that parse and are dropped by
\* their marker.
DroppedRequirements ==
    {Requirement(hist[i]) : i \in {j \in 1..Len(hist) :
        /\ Requirement(hist[j]).ok
        /\ Requirement(hist[j]).marker # None
        /\ ~MarkerEvaluate(Requirement(hist[j]).marker, env.sys_platform)}}

\* C2 as stated: a line that parses and whose marker evaluates false adds
\* nothing to the mapping and no line about its package is printed, neither
\* by get_requirements_dict nor by check_packages (the package having no
\* other line that keeps it).
C2_DroppedEntryPrintsNothing ==
    \A req \in DroppedRequirements :
        ~DictHas(reqs, Lower(req.name)) =>
            \A i \in 1..Len(out) : out[i].pkg \notin {req.name, Lower(req.name)}

\* C3 as stated, on the runs whose requirements file exists and whose
\* resolver has returned: whatever the manifest lines, the outcomes per
\* package and the version strings, nothing raises out of main and the exit
\* status is not 1.  (A load raising inside get_packages is C4.)
C3_NothingRaisesOutOfMain ==
    exc \notin {"FileNotFoundError", "OtherError"} =>
        /\ exc = None
        /\ exit_status # "1"
        /\ pc # "raised"

\* The loads made for package p, in order.
TriedFor(p) == SelectSeq(tried, LAMBDA e : e.pkg = p)

Yields(e) == e.gave \notin {None, "ImportError", "OtherError"}

\* C4 as stated: get_packages never raises, whatever the loads do, and when
\* it returns the mapping has an entry for the lowercase form of every input
\* name, "0.0" for each name none of whose candidates gave a version.
C4_GetPackagesNeverRaises ==
    /\ \A i \in 1..Len(tried) : tried[i].gave # "OtherError"
    /\ pc = "get_packages" =>
          \A j \in 1..(pi - 1) :
              /\ DictHas(result, Lower(pkgs[j]))
              /\ (\A i \in 1..Len(tried) : tried[i].pkg = pkgs[j] => ~Yields(tried[i]))
                    => result.val[Lower(pkgs[j])] = "0.0"

\* The [OK]/[FAIL] lines printed for package k.
LinesFor(k) == {i \in 2..Len(out) : Tagged(out[i]) /\ out[i].pkg = k}

\* Whether version 0.0 satisfies a stored specifier: of the specifiers of the
\* model only the default ">=0" admits it.
ZeroSatisfies(spec_str) == spec_str = ">=0"

\* C5: every checked package none of whose candidates could be loaded has
\* exactly one line: "[FAIL] <name> 0.0, please install a version matching
\* <stored specifier>", unless 0.0 satisfies the stored specifier, and then
\* "[OK] <name> 0.0"; a requirement written with no specifier falls under the
\* same rule with its stored default.
C5_UnloadableReportedAgainstSentinel ==
    \A j \in 1..Len(Checked) :
        LET k == Checked[j]
        IN  k \in notLoaded =>
              /\ installed.val[k] = "0.0"
              /\ Cardinality(LinesFor(k)) = 1
              /\ \A i \in LinesFor(k) :
                    out[i] = IF ZeroSatisfies(reqs.val[k])
                             THEN Msg("package", "[OK]", k, "0.0", None, None, <<>>)
                             ELSE Msg("package", "[FAIL]", k, "0.0", reqs.val[k],
                                      None, <<>>)

C5_Witness ==
    /\ pc = "done"
    /\ notLoaded = {"foo-bar", "tensorflow-cpu"}
    /\ reqs.val["foo-bar"] = ">=0"
    /\ reqs.val["tensorflow-cpu"] = ">=2.0"
    /\ \E i \in LinesFor("tensorflow-cpu") : out[i].tag = "[FAIL]"

\* Whether version v lies inside the bounds of every clause of a specifier string.
InsideBounds(v, spec_str) == \A c \in SplitClauses(spec_str) : ClauseCompare(c, v)

\* C6: the specifier set of the package just checked admits pre-releases
\* exactly when its installed version is a pre-release and is otherwise as
\* constructed from the stored specifier; and every checked package is
\* reported [OK] exactly when its installed version lies inside the bounds of
\* its specifier, a pre-release such as 2.0.0a1 against >=1.0,<3.0 included.
C6_PrereleasesAllowedForPrereleases ==
    /\ \A j \in 1..Len(Checked) :
          LET k == Checked[j]
              v == version_parse(DictGet(installed, k, "0.0"))
          IN  DictGet(installed, k, "0.0") # "N/A" =>
                /\ v.valid
                /\ \A i \in LinesFor(k) :
                      out[i].tag = "[OK]" <=> InsideBounds(v, reqs.val[k])
                /\ (j = Len(Checked) /\ pc # "raised") =>
                      /\ spec_set.specs = SplitClauses(reqs.val[k])
                      /\ spec_set.prereleases = "True" <=> v.is_prerelease
    /\ (pc = "done" /\ DictHas(installed, "foo-bar")
        /\ DictGet(installed, "foo-bar", None) = "2.0.0a1"
        /\ DictGet(reqs, "foo-bar", None) = "<3.0,>=1.0")
          => \E i \in LinesFor("foo-bar") :
                out[i] = Msg("package", "[OK]", "foo-bar", "2.0.0a1", None, None, <<>>)

C6_Witness ==
    /\ pc = "done"
    /\ DictGet(installed, "foo-bar", None) = "2.0.0a1"
    /\ DictGet(reqs, "foo-bar", None) = "<3.0,>=1.0"
    /\ spec_set.prereleases = "True"
    /\ \E i \in LinesFor("foo-bar") : out[i].tag = "[OK]"

HasHash(l) == \E i \in 1..Len(l) : l[i] = "#"

\* The places where a raw line reads L, then " #", then a comment, L having no '#'.
CommentCuts(r) ==
    {k \in 2..Len(r) : r[k] = "#" /\ r[k - 1] = " " /\ ~HasHash(SubSeq(r, 1, k - 2))}

\* A raw line that holds only white space, or only white space before a comment.
OnlyCommentOrSpace(r) ==
    \A i \in 1..Len(r) : IsSpace(r[i]) \/ \E j \in 1..i : r[j] = "#" /\ \A h \in 1..(j - 1) : IsSpace(r[h])

\* C7: reading the line L + " #" + C has the effect on the requirements
\* mapping (entry, specifier, kept or dropped) and on the cleaned line that
\* reading L alone has, for every comment C; and a line that is only a comment
\* or white space changes neither the mapping nor the output.
C7_CommentNeverAffectsParsing ==
    [][(pc = "parse" /\ nread' = nread + 1) =>
          /\ \A k \in CommentCuts(raw') :
                LET alone == ProcessLine(SubSeq(raw', 1, k - 2) \o <<"\n">>, reqs, out,
                                         env.sys_platform)
                IN  /\ reqs' = alone.reqs
                    /\ line' = alone.line
                    /\ out' = alone.out
          /\ OnlyCommentOrSpace(raw') => reqs' = reqs /\ out' = out]_vars

C7_Witness ==
    /\ pc = "parse"
    /\ raw = <<"Foo-Bar", ">=1.0,<3.0", " ", "#", "#", "==", "\n">>
    /\ line = <<"Foo-Bar", ">=1.0,<3.0">>
    /\ DictGet(reqs, "foo-bar", None) = "<3.0,>=1.0"

\* The candidate lists the packages are resolved through.
CandidateOrder(p) ==
    IF p = "tensorflow-cpu" THEN <<"tensorflow", "tensorflow_cpu">> ELSE <<p>>

\* The loads of package p's own candidates (not of the alternative spellings).
CandidateLoads(p) ==
    SelectSeq(TriedFor(p), LAMBDA e : e.module \in Range(CandidateOrder(p)))

\* C8: the candidates of a package are loaded in list order; a package is
\* finished at the first load that gives a version, its entry is that
\* version, and nothing is loaded for it after that load; a package none of
\* whose loads gave a version has "0.0".
C8_FirstCandidateWithVersionWins ==
    pc = "get_packages" =>
        \A j \in 1..Len(pkgs) :
            LET p == pkgs[j]
                t == TriedFor(p)
                c == CandidateLoads(p)
            IN  /\ Len(c) <= Len(CandidateOrder(p))
                /\ \A i \in 1..Len(c) : c[i].module = CandidateOrder(p)[i]
                /\ \A i \in 1..Len(t) : Yields(t[i]) => i = Len(t)
                /\ j < pi =>
                      /\ DictHas(result, p)
                      /\ result.val[p] = IF t # <<>> /\ Yields(t[Len(t)])
                                         THEN t[Len(t)].gave ELSE "0.0"
                      /\ ~Yields(t[Len(t)]) => Len(c) = Len(CandidateOrder(p))
                /\ j > pi => t = <<>>

C8_Witness ==
    /\ pc = "get_packages"
    /\ DictGet(result, "tensorflow-cpu", None) = "v2.0"
    /\ TriedFor("tensorflow-cpu") = <<[pkg |-> "tensorflow-cpu", module |-> "tensorflow",
                                      gave |-> "v2.0"]>>

HasHyphen(m) == m \in {"foo-bar", "tensorflow-cpu", "Foo-Bar"}

Underscored(m) ==
    CASE m = "foo-bar" -> "foo_bar"
      [] m = "Foo-Bar" -> "Foo_Bar"
      [] m = "tensorflow-cpu" -> "tensorflow_cpu"

\* Whether the load after load i is the same package's retry of the same
\* candidate with underscores.
RetriedAfter(i) ==
    /\ i < Len(tried)
    /\ tried[i + 1].pkg = tried[i].pkg
    /\ tried[i + 1].module = Underscored(tried[i].module)

\* C9 as stated: whenever a candidate with a hyphen gives no version, because
\* its load failed or because it loaded without a version, the same candidate
\* is loaded again with underscores before anything else is done.
C9_RetryWheneverNoVersion ==
    \A i \in 1..Len(tried) :
        (HasHyphen(tried[i].module) /\ tried[i].gave \in {None, "ImportError"})
            => RetriedAfter(i)

\* C9 amended: whenever the load of a candidate with a hyphen fails with
\* ImportError, the same candidate is loaded again with underscores before
\* anything else is done; a candidate that loads but gives no version is not
\* retried.
C9_RetryOnImportError ==
    \A i \in 1..Len(tried) :
        HasHyphen(tried[i].module) =>
            /\ tried[i].gave = "ImportError" => RetriedAfter(i)
            /\ tried[i].gave = None => ~RetriedAfter(i)

C9_Witness ==
    /\ Len(tried) = 2
    /\ tried[1] = [pkg |-> "foo-bar", module |-> "foo-bar", gave |-> "ImportError"]
    /\ tried[2].module = "foo_bar"
    /\ tried[2].gave = "v2.0"
    /\ DictGet(result, "foo-bar", None) = "v2.0"

\* The indices of the lines read so far that parse and whose marker is absent
\* or evaluates true.
KeptLines ==
    {i \in 1..Len(hist) :
        /\ Requirement(hist[i]).ok
        /\ \/ Requirement(hist[i]).marker = None
           \/ MarkerEvaluate(Requirement(hist[i]).marker, env.sys_platform)}

LowerName(i) == Lower(Requirement(hist[i]).name)

\* The specifier string of a line: its specifier's text, ">=0" without one.
SpecifierString(i) ==
    LET t == SelectSeq(hist[i], LAMBDA x : x \in SpecToks)
    IN  IF t = <<>> THEN ">=0"
        ELSE IF t[1] = ">=1.0,<3.0" THEN "<3.0,>=1.0"
        ELSE t[1]

\* C10: after any sequence of lines the keys of the mapping are exactly the
\* lowercased names of the lines that parse and whose marker is absent or
\* true, and each key maps to the specifier string of the last such line for
\* its name (">=0" when that line has no specifier); lines that are malformed
\* or dropped by their marker change nothing.
C10_MappingIsLastKeptLinePerName ==
    /\ Range(reqs.keys) = {LowerName(i) : i \in KeptLines}
    /\ Len(reqs.keys) = Cardinality(Range(reqs.keys))
    /\ DOMAIN reqs.val = Range(reqs.keys)
    /\ \A i \in KeptLines :
          (\A j \in KeptLines : LowerName(j) = LowerName(i) => j <= i)
              => reqs.val[LowerName(i)] = SpecifierString(i)

C10_Witness ==
    /\ pc = "parse"
    /\ hist = <<<<"Foo-Bar", ">=1.0,<3.0">>, <<"Foo-Bar", "==">>>>
    /\ reqs = [keys |-> <<"foo-bar">>, val |-> ("foo-bar" :> "<3.0,>=1.0")]

====
